---- MODULE Spec2Model ----
(***************************************************************************)
(* The ban routes of backend/src/routes/bans.rs: list, create,             *)
(* character_history, update (amend) and revoke, as request handlers that  *)
(* run concurrently against one ban table.                                 *)
(*                                                                         *)
(* A handler is cut into steps at its .await points: every SQL statement   *)
(* and the ESI lookup is one atomic step, and the statements of different  *)
(* handlers interleave freely (the handlers take no lock and open no       *)
(* transaction).  The wall clock advances between any two steps.           *)
(*                                                                         *)
(* Option<T> is modelled as a set with at most one element.  Timestamps    *)
(* are Unix seconds in a window around the first scheduled expiry, far     *)
(* from the limits of i64; the store is taken to answer every statement.   *)
(***************************************************************************)
EXTENDS Integers, Sequences, FiniteSets, TLC

\* ---- bounds of the model -------------------------------------------------
NumHandlers == 2      \* request handlers that can be in flight together
MaxCalls == 3         \* requests served in one behaviour
MaxBans == 1          \* rows the ban table can hold
MaxTicks == 2         \* seconds the clock advances
MaxDay == 0           \* largest caller-supplied scheduled end

\* ---- program constants ---------------------------------------------------
\* let downtime = 60 * 60 * 11;
downtime == 60 * 60 * 11

\* ---- Option<T> -----------------------------------------------------------
None == {}
Some(v) == {v}
is_none(o) == o = {}
unwrap(o) == CHOOSE v \in o : TRUE

\* ---- the environment -----------------------------------------------------
Handlers == 1 .. NumHandlers
StartTime == downtime - 1
Days == 0 .. MaxDay

\* AuthenticatedAccount: the acting account with the scopes it was granted.
Accounts ==
    { [id |-> 1, access |-> {"bans-manage"}],
      [id |-> 2, access |-> {"bans-manage"}],
      [id |-> 3, access |-> {}] }

\* The character table: the display name of every account.
character == [i \in {1, 2, 3} |-> <<"Ann", "Bob", "Cid">>[i]]

\* The admin table: character_id -> role.  Read-only for these routes.
admin == { [character_id |-> 900, role |-> "council"] }

\* Entities a caller can name in a request body (name is resolved, not sent).
Entities ==
    { [id |-> 500, category |-> "Corporation"],
      [id |-> 900, category |-> "Character"] }

\* The private/public reason pairs a caller can send.
Reasons ==
    { [reason |-> "cheating", public_reason |-> None],
      [reason |-> "botting", public_reason |-> Some("rule 4")] }

\* Json<Ban> request bodies: the fields create and update read.
Bodies ==
    { [entity |-> e, reason |-> r.reason, public_reason |-> r.public_reason,
       revoked_at |-> d] :
        e \in {None} \cup {Some(x) : x \in Entities},
        r \in Reasons,
        d \in {None} \cup {Some(x) : x \in Days} }

NoBody == [entity |-> None, reason |-> "", public_reason |-> None, revoked_at |-> None]

VARIABLES
    clock,      \* Utc::now().timestamp()
    bans,       \* the ban table, in id order; the id of a row is its position
    pc,         \* where each handler stands
    req,        \* each handler's request, locals and response
    calls,      \* requests begun so far
    inflight,   \* per handler: the handlers whose current request overlaps its own
    room        \* rows the ban table can still take

vars == <<clock, bans, pc, req, calls, inflight, room>>

\* ---- pure helpers --------------------------------------------------------

\* account.require_access(scope)
require_access(account, scope) == scope \in account.access

\* WHERE revoked_at IS NULL OR revoked_at > $1
active(row, now) == is_none(row.revoked_at) \/ unwrap(row.revoked_at) > now

\* !ban.revoked_at.is_none() && ban.revoked_at.unwrap() < now
revoke_ended(ban, now) == ~is_none(ban.revoked_at) /\ unwrap(ban.revoked_at) < now

\* expires_at with a fault: the scheduled end is stored as sent.
expires_at_as_sent(req_body) == req_body.revoked_at

\* let expires_at = match req_body.revoked_at.as_ref() { None => None, Some(day) => Some(day + downtime) }
expires_at(req_body) ==
    IF is_none(req_body.revoked_at) THEN None
    ELSE Some(unwrap(req_body.revoked_at) + downtime)

\* category.to_lowercase()
to_lowercase(s) ==
    CASE s = "Character" -> "character"
      [] s = "Corporation" -> "corporation"
      [] OTHER -> s

\* format!("/latest/{}s/{}", category.to_lowercase(), id)
esi_path(e) == [kind |-> to_lowercase(e.category), id |-> e.id]

\* The names ESI serves, by path.
esi_names ==
    { [path |-> [kind |-> "corporation", id |-> 500], name |-> "Mallcorp"],
      [path |-> [kind |-> "character", id |-> 900], name |-> "Erin"] }

\* SELECT * FROM ban WHERE id=$1
select_ban(table, ban_id) ==
    IF ban_id \in 1 .. Len(table) THEN Some(table[ban_id]) ELSE None

\* SELECT * FROM admin WHERE character_id=$1
select_admin(id) == { a \in admin : a.character_id = id }

\* ---- responses -------------------------------------------------------------
NoRows == << >>
Response(status, text, arg, rows) ==
    [status |-> status, text |-> text, arg |-> arg, rows |-> rows]
Pending == Response("pending", "", "", NoRows)
Ok == Response("Ok", "Ok", "", NoRows)
Unauthorized == Response("Unauthorized", "", "", NoRows)
BadRequest(text, arg) == Response("BadRequest", text, arg, NoRows)
EsiError == Response("EsiError", "", "", NoRows)
OkRows(rows) == Response("Ok", "", "", rows)

MissingParams == BadRequest("One or more body paramaters are missing", "")
CannotBeBanned(role) == BadRequest("accounts cannot be banned.", role)
InvalidBan == BadRequest("Cannot revoke invalid ban. It is either invalid or doesn't exist", "")
AlreadyExpired == BadRequest("Cannot revoke the ban as it has already expired", "")
AlreadyRevoked(name) == BadRequest("has already revoked this ban", name)
CouldNotFind(ban_id) == BadRequest("Could not find a ban with the ID of", ToString(ban_id))

\* ---- requests ---------------------------------------------------------------
NoReq ==
    [op |-> "none", account |-> [id |-> 0, access |-> {}], ban_id |-> 0,
     character_id |-> 0, req_body |-> NoBody, now |-> 0, ban |-> None,
     esi_res |-> None, was_active |-> FALSE, touched |-> {}, result |-> Pending]

Running(p) == pc[p] \notin {"idle", "done"}

\* A handler takes a new request: the requests in flight overlap it.  Which
\* free handler serves a request is immaterial: the first free one does.
Accept(p) ==
    /\ pc[p] \in {"idle", "done"}
    /\ \A q \in Handlers : q < p => Running(q)
    /\ calls < MaxCalls
    /\ calls' = calls + 1
    /\ inflight' = [q \in Handlers |->
                      IF q = p THEN {r \in Handlers : r # p /\ Running(r)}
                      ELSE inflight[q] \ {p}]
    /\ room' = room

Init ==
    /\ clock = StartTime
    /\ bans = << >>
    /\ pc = [p \in Handlers |-> "idle"]
    /\ req = [p \in Handlers |-> NoReq]
    /\ calls = 0
    /\ inflight = [p \in Handlers |-> {}]
    /\ room = MaxBans

\* The clock advances.
Tick ==
    /\ clock < StartTime + MaxTicks
    /\ clock' = clock + 1
    /\ UNCHANGED <<bans, pc, req, calls, inflight, room>>

\* A handler moves to its next step with its locals updated.
Goto(p, r, next) ==
    /\ req' = [req EXCEPT ![p] = r]
    /\ pc' = [pc EXCEPT ![p] = next]

\* A handler returns its response: its locals are dropped, and what the caller
\* knows of the request stays (the route, the account, the ban id, the response).
Return(p, r, result) ==
    Goto(p, [NoReq EXCEPT !.op = r.op, !.account = r.account, !.ban_id = r.ban_id,
                          !.was_active = r.was_active, !.touched = r.touched,
                          !.result = result],
         "done")

Touch(r, what) == [r EXCEPT !.touched = @ \cup {what}]

\* ---- GET /api/v2/bans ------------------------------------------------------

\* The row of the SELECT ... JOIN character as the Ban the route returns.
list_ban(row) ==
    [id |-> Some(row.id),
     entity |-> Some([id |-> row.entity_id, name |-> row.entity_name,
                      category |-> row.entity_type]),
     issued_at |-> Some(row.issued_at),
     issued_by |-> Some([id |-> row.issued_by, name |-> character[row.issued_by],
                         corporation_id |-> None]),
     reason |-> row.reason,
     public_reason |-> row.public_reason,
     revoked_at |-> row.revoked_at,
     revoked_by |-> None]

\* list_rows with a fault: the WHERE clause is missing.
list_rows_unfiltered(table, now) ==
    SelectSeq(table, LAMBDA row : row.issued_by \in DOMAIN character)

\* SELECT ... FROM ban JOIN character as issuer ON issued_by=issuer.id
\* WHERE revoked_at IS NULL OR revoked_at > $1
list_rows(table, now) ==
    SelectSeq(table, LAMBDA row : row.issued_by \in DOMAIN character /\ active(row, now))

\* list, up to the query: the permission check and the clock reading.
list(p) ==
    \E account \in Accounts :
        /\ Accept(p)
        /\ LET r == [NoReq EXCEPT !.op = "list", !.account = account] IN
           IF ~require_access(account, "bans-manage")
           THEN Return(p, r, Unauthorized)
           ELSE Goto(p, [r EXCEPT !.now = clock], "list_fetch_all")
        /\ UNCHANGED <<clock, bans>>

\* list: the query runs and the rows are returned.
list_fetch_all(p) ==
    /\ pc[p] = "list_fetch_all"
    /\ LET rows == list_rows(bans, req[p].now) IN
       Return(p, Touch(req[p], "store"),
              OkRows([i \in 1 .. Len(rows) |-> list_ban(rows[i])]))
    /\ UNCHANGED <<clock, bans, calls, inflight, room>>

\* ---- POST /api/v2/bans -----------------------------------------------------

\* Creates accepted and not yet finished.
CreatesRunning == Cardinality({q \in Handlers : Running(q) /\ req[q].op = "create"})

\* create, up to the ESI call: permission check, clock reading, entity check.
create(p) ==
    \E account \in Accounts, req_body \in Bodies :
        /\ Accept(p)
        /\ CreatesRunning < room
        /\ LET r == [NoReq EXCEPT !.op = "create", !.account = account,
                                  !.req_body = req_body] IN
           IF ~require_access(account, "bans-manage")
           THEN Return(p, [r EXCEPT !.req_body = NoBody], Unauthorized)
           ELSE IF is_none(req_body.entity)
           THEN Return(p, [r EXCEPT !.now = clock], MissingParams)
           ELSE Goto(p, [r EXCEPT !.now = clock], "create_get_unauthenticated")
        /\ UNCHANGED <<clock, bans>>

\* create_get_unauthenticated with a fault: a failed lookup is not propagated
\* and the handler goes on with an empty name.
create_get_unauthenticated_unpropagated(p) ==
    /\ pc[p] = "create_get_unauthenticated"
    /\ LET e == unwrap(req[p].req_body.entity)
           r == Touch(req[p], "esi") IN
       \/ Goto(p, [r EXCEPT !.esi_res = Some([name |-> ""])], "create_select_admin")
       \/ \E n \in esi_names :
            /\ n.path = esi_path(e)
            /\ Goto(p, [r EXCEPT !.esi_res = Some([name |-> n.name])],
                    "create_select_admin")
    /\ UNCHANGED <<clock, bans, calls, inflight, room>>

\* create: app.esi_client.get_unauthenticated(path) answers, or fails.
create_get_unauthenticated(p) ==
    /\ pc[p] = "create_get_unauthenticated"
    /\ LET e == unwrap(req[p].req_body.entity)
           r == Touch(req[p], "esi") IN
       \/ Return(p, r, EsiError)
       \/ \E n \in esi_names :
            /\ n.path = esi_path(e)
            /\ Goto(p, [r EXCEPT !.esi_res = Some([name |-> n.name])],
                    "create_select_admin")
    /\ UNCHANGED <<clock, bans, calls, inflight, room>>

\* create_select_admin with a fault: the admin lookup finds nobody.
create_select_admin_skipped(p) ==
    /\ pc[p] = "create_select_admin"
    /\ Goto(p, Touch(req[p], "admin"), "create_insert")
    /\ UNCHANGED <<clock, bans, calls, inflight, room>>

\* create: the admin lookup that stops FCs from banning other FCs.
create_select_admin(p) ==
    /\ pc[p] = "create_select_admin"
    /\ LET e == unwrap(req[p].req_body.entity)
           r == Touch(req[p], "admin") IN
       IF select_admin(e.id) # {}
       THEN Return(p, r, CannotBeBanned((unwrap(select_admin(e.id))).role))
       ELSE Goto(p, r, "create_insert")
    /\ UNCHANGED <<clock, bans, calls, inflight, room>>

\* INSERT INTO ban (entity_type, entity_id, entity_name, issued_at, issued_by,
\*                  reason, public_reason, revoked_at) VALUES (...)
insert_ban(table, e, name, now, account, req_body) ==
    Append(table,
           [id |-> Len(table) + 1,
            entity_type |-> e.category,
            entity_id |-> e.id,
            entity_name |-> name,
            issued_at |-> now,
            issued_by |-> account.id,
            reason |-> req_body.reason,
            public_reason |-> req_body.public_reason,
            revoked_at |-> expires_at(req_body),
            revoked_by |-> None])

\* create: the INSERT runs.
create_insert(p) ==
    /\ pc[p] = "create_insert"
    /\ bans' = insert_ban(bans, unwrap(req[p].req_body.entity),
                          (unwrap(req[p].esi_res)).name, req[p].now,
                          req[p].account, req[p].req_body)
    /\ Return(p, Touch(req[p], "store"), Ok)
    /\ room' = room - 1
    /\ UNCHANGED <<clock, calls, inflight>>

\* ---- GET /api/v2/bans/<character_id> ---------------------------------------

\* app.ban_service.all_bans(id, kind): every ban recorded for that entity,
\* active or not; None when there is none.
all_bans(table, id, kind) ==
    LET rows == SelectSeq(table, LAMBDA row : row.entity_id = id /\ row.entity_type = kind)
    IN  IF rows = << >> THEN None ELSE Some(rows)

\* character_history, up to the call of the ban service: the permission check.
character_history(p) ==
    \E account \in Accounts, character_id \in {e.id : e \in Entities} :
        /\ Accept(p)
        /\ LET r == [NoReq EXCEPT !.op = "character_history", !.account = account,
                                  !.character_id = character_id] IN
           IF ~require_access(account, "bans-manage")
           THEN Return(p, r, Unauthorized)
           ELSE Goto(p, r, "character_history_all_bans")
        /\ UNCHANGED <<clock, bans>>

\* character_history_all_bans with a fault: no history is answered with an error.
character_history_all_bans_strict(p) ==
    /\ pc[p] = "character_history_all_bans"
    /\ LET found == all_bans(bans, req[p].character_id, "Character") IN
       Return(p, Touch(req[p], "store"),
              IF is_none(found) THEN InvalidBan ELSE OkRows(unwrap(found)))
    /\ UNCHANGED <<clock, bans, calls, inflight, room>>

\* character_history: the ban service answers.
character_history_all_bans(p) ==
    /\ pc[p] = "character_history_all_bans"
    /\ LET found == all_bans(bans, req[p].character_id, "Character") IN
       Return(p, Touch(req[p], "store"),
              IF is_none(found) THEN OkRows(<< >>) ELSE OkRows(unwrap(found)))
    /\ UNCHANGED <<clock, bans, calls, inflight, room>>

\* ---- PATCH /api/v2/bans/<ban_id> -------------------------------------------

\* The ban ids a caller can name: an id names no ban until a create assigns it.
BanIds == 1 .. MaxBans + 1

\* select_active_ban with a fault: the SELECT without its condition on revoked_at.
select_active_ban_any(table, ban_id, now) == select_ban(table, ban_id)

\* SELECT * FROM ban WHERE id=$1 AND (revoked_at IS NULL OR revoked_at > $2)
select_active_ban(table, ban_id, now) ==
    { row \in select_ban(table, ban_id) : active(row, now) }

\* update_ban with a fault: the UPDATE without issued_by and issued_at.
update_ban_no_restamp(table, req_body, account, now, ban_id) ==
    [i \in 1 .. Len(table) |->
        IF table[i].id = ban_id
        THEN [table[i] EXCEPT !.reason = req_body.reason,
                              !.public_reason = req_body.public_reason,
                              !.revoked_at = expires_at(req_body)]
        ELSE table[i]]

\* UPDATE ban SET reason=$1, public_reason=$2, revoked_at=$3, issued_by=$4,
\*                issued_at=$5 WHERE id=$6
update_ban(table, req_body, account, now, ban_id) ==
    [i \in 1 .. Len(table) |->
        IF table[i].id = ban_id
        THEN [table[i] EXCEPT !.reason = req_body.reason,
                              !.public_reason = req_body.public_reason,
                              !.revoked_at = expires_at(req_body),
                              !.issued_by = account.id,
                              !.issued_at = now]
        ELSE table[i]]

\* update, up to the SELECT: the permission check and the clock reading.
\* (update does not read the entity of its body: the bodies carry none.)
update(p) ==
    \E account \in Accounts, ban_id \in BanIds,
       req_body \in {b \in Bodies : is_none(b.entity)} :
        /\ Accept(p)
        /\ LET r == [NoReq EXCEPT !.op = "update", !.account = account,
                                  !.ban_id = ban_id, !.req_body = req_body] IN
           IF ~require_access(account, "bans-manage")
           THEN Return(p, r, Unauthorized)
           ELSE Goto(p, [r EXCEPT !.now = clock], "update_select")
        /\ UNCHANGED <<clock, bans>>

\* update: the SELECT of the active ban runs.
update_select(p) ==
    /\ pc[p] = "update_select"
    /\ LET r == Touch(req[p], "store") IN
       IF is_none(select_active_ban(bans, req[p].ban_id, req[p].now))
       THEN Return(p, r, InvalidBan)
       ELSE Goto(p, r, "update_execute")
    /\ UNCHANGED <<clock, bans, calls, inflight, room>>

\* update_execute with a fault: the UPDATE also clears revoked_by.
update_execute_unrevoking(p) ==
    /\ pc[p] = "update_execute"
    /\ bans' = [i \in 1 .. Len(bans) |->
                  IF bans[i].id = req[p].ban_id
                  THEN [update_ban(bans, req[p].req_body, req[p].account, req[p].now,
                                   req[p].ban_id)[i] EXCEPT !.revoked_by = None]
                  ELSE bans[i]]
    /\ Return(p, Touch(req[p], "store"), Ok)
    /\ UNCHANGED <<clock, calls, inflight, room>>

\* update: the UPDATE runs.
update_execute(p) ==
    /\ pc[p] = "update_execute"
    /\ bans' = update_ban(bans, req[p].req_body, req[p].account, req[p].now,
                          req[p].ban_id)
    /\ Return(p, Touch(req[p], "store"), Ok)
    /\ UNCHANGED <<clock, calls, inflight, room>>

\* ---- DELETE /api/v2/bans/<ban_id> ------------------------------------------

\* revoke_ban with a fault: the UPDATE without its WHERE clause.
revoke_ban_every_row(table, now, account, ban_id) ==
    [i \in 1 .. Len(table) |->
        [table[i] EXCEPT !.revoked_at = Some(now),
                         !.revoked_by = Some(account.id)]]

\* UPDATE ban SET revoked_at=$1, revoked_by=$2 WHERE id=$3
revoke_ban(table, now, account, ban_id) ==
    [i \in 1 .. Len(table) |->
        IF table[i].id = ban_id
        THEN [table[i] EXCEPT !.revoked_at = Some(now),
                              !.revoked_by = Some(account.id)]
        ELSE table[i]]

\* History: the ban named by an arriving request is in the table and active.
WasActive(ban_id) ==
    /\ ban_id \in 1 .. Len(bans)
    /\ active(bans[ban_id], clock)

\* revoke with a fault: the route without its permission check.
revoke_unchecked(p) ==
    \E account \in Accounts, ban_id \in BanIds :
        /\ Accept(p)
        /\ Goto(p, [NoReq EXCEPT !.op = "revoke", !.account = account,
                                 !.ban_id = ban_id,
                                 !.was_active = WasActive(ban_id)],
                "revoke_select")
        /\ UNCHANGED <<clock, bans>>

\* revoke, up to the SELECT: the permission check.
revoke(p) ==
    \E account \in Accounts, ban_id \in BanIds :
        /\ Accept(p)
        /\ LET r == [NoReq EXCEPT !.op = "revoke", !.account = account,
                                  !.ban_id = ban_id,
                                  !.was_active = WasActive(ban_id)] IN
           IF ~require_access(account, "bans-manage")
           THEN Return(p, r, Unauthorized)
           ELSE Goto(p, r, "revoke_select")
        /\ UNCHANGED <<clock, bans>>

\* revoke_select with a fault: a missing row is answered with Ok.
revoke_select_lenient(p) ==
    /\ pc[p] = "revoke_select"
    /\ LET found == select_ban(bans, req[p].ban_id)
           r == Touch(req[p], "store") IN
       IF is_none(found)
       THEN Return(p, r, Ok)
       ELSE Goto(p, [r EXCEPT !.ban = found], "revoke_check")
    /\ UNCHANGED <<clock, bans, calls, inflight, room>>

\* revoke: the SELECT of the ban runs.
revoke_select(p) ==
    /\ pc[p] = "revoke_select"
    /\ LET found == select_ban(bans, req[p].ban_id)
           r == Touch(req[p], "store") IN
       IF is_none(found)
       THEN Return(p, r, CouldNotFind(req[p].ban_id))
       ELSE Goto(p, [r EXCEPT !.ban = found], "revoke_check")
    /\ UNCHANGED <<clock, bans, calls, inflight, room>>

\* revoke: the handler resumes with the row, reads the clock and decides.
revoke_check(p) ==
    /\ pc[p] = "revoke_check"
    /\ LET ban == unwrap(req[p].ban)
           r == [req[p] EXCEPT !.now = clock] IN
       IF revoke_ended(ban, clock)
       THEN IF is_none(ban.revoked_by)
            THEN Return(p, r, AlreadyExpired)
            ELSE Goto(p, r, "revoke_select_character")
       ELSE Goto(p, r, "revoke_execute")
    /\ UNCHANGED <<clock, bans, calls, inflight, room>>

\* revoke: SELECT * FROM character WHERE id=$1 names the earlier revoker.
revoke_select_character(p) ==
    /\ pc[p] = "revoke_select_character"
    /\ LET fc_id == unwrap((unwrap(req[p].ban)).revoked_by) IN
       Return(p, Touch(req[p], "store"), AlreadyRevoked(character[fc_id]))
    /\ UNCHANGED <<clock, bans, calls, inflight, room>>

\* revoke_execute with a fault: the route deletes the row.
revoke_execute_deleting(p) ==
    /\ pc[p] = "revoke_execute"
    /\ bans' = SelectSeq(bans, LAMBDA row : row.id # req[p].ban_id)
    /\ Return(p, Touch(req[p], "store"), Ok)
    /\ UNCHANGED <<clock, calls, inflight, room>>

\* revoke: the UPDATE runs.
revoke_execute(p) ==
    /\ pc[p] = "revoke_execute"
    /\ bans' = revoke_ban(bans, req[p].now, req[p].account, req[p].ban_id)
    /\ Return(p, Touch(req[p], "store"), Ok)
    /\ UNCHANGED <<clock, calls, inflight, room>>

\* ---- the system --------------------------------------------------------------
Next ==
    \/ Tick
    \/ \E p \in Handlers : list(p)
    \/ \E p \in Handlers : list_fetch_all(p)
    \/ \E p \in Handlers : create(p)
    \/ \E p \in Handlers : create_get_unauthenticated(p)
    \/ \E p \in Handlers : create_select_admin(p)
    \/ \E p \in Handlers : create_insert(p)
    \/ \E p \in Handlers : character_history(p)
    \/ \E p \in Handlers : character_history_all_bans(p)
    \/ \E p \in Handlers : update(p)
    \/ \E p \in Handlers : update_select(p)
    \/ \E p \in Handlers : update_execute(p)
    \/ \E p \in Handlers : revoke(p)
    \/ \E p \in Handlers : revoke_select(p)
    \/ \E p \in Handlers : revoke_check(p)
    \/ \E p \in Handlers : revoke_select_character(p)
    \/ \E p \in Handlers : revoke_execute(p)

Spec == Init /\ [][Next]_vars

\* The system once a first create (lines 76-140) has returned Ok: its row is
\* stored, its call is counted, and the table can take `room` more rows.
InitOneBan ==
    /\ clock = StartTime
    /\ \E account \in {a \in Accounts : require_access(a, "bans-manage")},
          req_body \in {b \in Bodies : b.entity = Some([id |-> 500, category |-> "Corporation"])},
          n \in esi_names :
        /\ n.path = esi_path(unwrap(req_body.entity))
        /\ bans = insert_ban(<< >>, unwrap(req_body.entity), n.name, StartTime,
                             account, req_body)
    /\ pc = [p \in Handlers |-> "idle"]
    /\ req = [p \in Handlers |-> NoReq]
    /\ calls = 1
    /\ inflight = [p \in Handlers |-> {}]
    /\ room = MaxBans

SpecOneBan == InitOneBan /\ [][Next]_vars

\* ---- the claims ----------------------------------------------------------------

\* The spec's lifecycle predicates, as section 3 of the spec states them.
IsActive(row, t) == row.revoked_at = {} \/ \E at \in row.revoked_at : at > t
IsInactive(row, t) == \E at \in row.revoked_at : at <= t
IsExpired(row, t) == IsInactive(row, t) /\ row.revoked_by = {}
IsRevokedBy(row, t, id) == IsInactive(row, t) /\ row.revoked_by = {id}

Permitted(account) == "bans-manage" \in account.access
Overlap(p, q) == q \in inflight[p] \/ p \in inflight[q]
Returned(p, op) == pc[p] = "done" /\ req[p].op = op
Returns(p, op) == pc[p] # "done" /\ req[p].op = op /\ pc'[p] = "done"

\* C1: when two revoke calls by different permitted accounts overlap on one ban
\* that was active when each call arrived, exactly one of them returns Ok, the
\* other is refused with the message naming the winner, and the row's
\* revoked_by is the winner.
C1_ExactlyOneRevokeWins ==
    \A p, q \in Handlers :
        ( /\ p # q
          /\ Returned(p, "revoke") /\ Returned(q, "revoke")
          /\ Permitted(req[p].account) /\ Permitted(req[q].account)
          /\ req[p].account.id # req[q].account.id
          /\ req[p].ban_id = req[q].ban_id
          /\ req[p].was_active /\ req[q].was_active
          /\ Overlap(p, q) )
        => \E w, l \in {p, q} :
              /\ w # l
              /\ req[w].result = Ok
              /\ req[l].result = AlreadyRevoked(character[req[w].account.id])
              /\ bans[req[w].ban_id].revoked_by = {req[w].account.id}

\* C2: a ban that is inactive (revoked_at present and revoked_at <= now) is
\* inactive after every step, and its row is the same after every step.
C2_InactiveIsSettled ==
    [][\A i \in 1 .. Len(bans) :
          IsInactive(bans[i], clock)
          => /\ i \in 1 .. Len(bans')
             /\ IsInactive(bans'[i], clock')
             /\ bans'[i] = bans[i]]_vars

\* C3: a revoke that reads the clock and finds the ban it fetched expired
\* (revoked_at <= now, the instant now = revoked_at included, revoked_by absent)
\* returns "already expired" and writes nothing.
C3_RevokeOfExpiredRefused ==
    [][\A p \in Handlers :
          ( /\ pc[p] = "revoke_check"
            /\ pc'[p] # "revoke_check"
            /\ IsExpired(unwrap(req[p].ban), clock) )
          => /\ pc'[p] = "done"
             /\ req'[p].result = AlreadyExpired
             /\ bans' = bans]_vars

\* C4: a revoke by account B that reads the clock and finds the ban it fetched
\* revoked by another account A (revoked_by = A, revoked_at <= now, the instant
\* now = revoked_at included) goes on to name A, then returns "A has already
\* revoked this ban", and writes nothing.
C4_SecondRevokeNamesFirst ==
    [][\A p \in Handlers :
          /\ ( /\ pc[p] = "revoke_check"
               /\ pc'[p] # "revoke_check"
               /\ \E a \in {1, 2, 3} \ {req[p].account.id} :
                     IsRevokedBy(unwrap(req[p].ban), clock, a) )
             => /\ pc'[p] = "revoke_select_character"
                /\ bans' = bans
          /\ ( /\ pc[p] = "revoke_select_character"
               /\ pc'[p] # "revoke_select_character" )
             => /\ pc'[p] = "done"
                /\ \E a \in (unwrap(req[p].ban)).revoked_by :
                      req'[p].result = AlreadyRevoked(character[a])
                /\ bans' = bans]_vars

\* C5: a revoke that reads the clock and finds the ban it fetched active goes on
\* to its UPDATE; the UPDATE stores revoked_at = the call's instant and
\* revoked_by = the acting account and the call returns Ok; and for as long as
\* the caller holds that Ok the ban is inactive: list-active leaves it out and
\* the SELECT of an amend finds nothing.
C5_RevokeEndsTheBan ==
    [][\A p \in Handlers :
          /\ ( /\ pc[p] = "revoke_check"
               /\ pc'[p] # "revoke_check"
               /\ IsActive(unwrap(req[p].ban), clock) )
             => pc'[p] = "revoke_execute"
          /\ ( /\ pc[p] = "revoke_execute"
               /\ pc'[p] # "revoke_execute" )
             => /\ req'[p].result = Ok
                /\ bans'[req[p].ban_id].revoked_at = {req[p].now}
                /\ bans'[req[p].ban_id].revoked_by = {req[p].account.id}
          /\ ( /\ pc'[p] = "done"
               /\ req'[p].op = "revoke"
               /\ req'[p].result = Ok )
             => LET id == req'[p].ban_id IN
                /\ IsInactive(bans'[id], clock')
                /\ \A i \in 1 .. Len(list_rows(bans', clock')) :
                      list_rows(bans', clock')[i].id # id
                /\ select_active_ban(bans', id, clock') = {}]_vars

\* What the spec says a scheduled end D is stored as: D + 39600 seconds.
Scheduled(req_body) == {d + 39600 : d \in req_body.revoked_at}

\* C6: an amend reads the clock when it arrives; its SELECT sends it on to the
\* UPDATE only if the ban exists and is active at that instant, and otherwise
\* the call returns "invalid or doesn't exist" with the table unchanged; an
\* amend returns Ok only from its UPDATE, which only the SELECT leads to.
C6_AmendNeedsActiveBan ==
    [][\A p \in Handlers :
          /\ (pc[p] # "update_select" /\ pc'[p] = "update_select")
             => req'[p].now = clock
          /\ (pc[p] = "update_select" /\ pc'[p] # "update_select")
             => /\ bans' = bans
                /\ IF /\ req[p].ban_id \in 1 .. Len(bans)
                      /\ IsActive(bans[req[p].ban_id], req[p].now)
                   THEN pc'[p] = "update_execute"
                   ELSE pc'[p] = "done" /\ req'[p].result = InvalidBan
          /\ (pc[p] # "update_execute" /\ pc'[p] = "update_execute")
             => pc[p] = "update_select"
          /\ (Returns(p, "update") /\ req'[p].result = Ok)
             => pc[p] = "update_execute"]_vars

\* C6 witness: an amend of a ban that is in the table and inactive was refused.
C6_Witness ==
    \E p \in Handlers :
        /\ Returned(p, "update")
        /\ req[p].result = InvalidBan
        /\ req[p].ban_id \in 1 .. Len(bans)
        /\ IsInactive(bans[req[p].ban_id], clock)

\* Handler p, running a permitted create that names an admin, takes a step.
CreatesAdmin(p) ==
    /\ req[p].op = "create"
    /\ Running(p)
    /\ \E e \in req[p].req_body.entity : select_admin(e.id) # {}
    /\ pc'[p] # pc[p]

\* C7 as stated: a permitted create naming an entity of the admin table never
\* reaches the INSERT, changes nothing in the table, and returns "<role> accounts
\* cannot be banned.", whatever the ESI lookup answers.
C7_AdminAlwaysPolicyViolation ==
    [][\A p \in Handlers :
          CreatesAdmin(p)
          => /\ bans' = bans
             /\ pc'[p] # "create_insert"
             /\ pc'[p] = "done"
                => \E e \in req[p].req_body.entity, a \in admin :
                      /\ a.character_id = e.id
                      /\ req'[p].result = CannotBeBanned(a.role)]_vars

\* C7 amended: a permitted create naming an entity of the admin table never
\* reaches the INSERT and changes nothing in the table; it returns "<role>
\* accounts cannot be banned." when the ESI lookup has answered, and the ESI
\* error when the lookup fails.
C7_AdminNeverBanned ==
    [][\A p \in Handlers :
          CreatesAdmin(p)
          => /\ bans' = bans
             /\ pc'[p] # "create_insert"
             /\ pc'[p] = "done"
                => IF req[p].esi_res = {}
                   THEN req'[p].result = EsiError
                   ELSE \E e \in req[p].req_body.entity, a \in admin :
                           /\ a.character_id = e.id
                           /\ req'[p].result = CannotBeBanned(a.role)]_vars

\* C7 witness: a create naming the admin was refused and the table is empty.
C7_Witness ==
    \E p \in Handlers :
        /\ Returned(p, "create")
        /\ req[p].result = CannotBeBanned("council")
        /\ bans = << >>

\* C8: a create returns Ok only from its INSERT, and the INSERT adds one row
\* at the end of the table with revoked_at = D + 39600 for a scheduled end D
\* and absent for none, revoked_by absent, issued_at the instant the call read
\* on arrival and issued_by the acting account.
C8_CreateStoresScheduledEnd ==
    [][\A p \in Handlers :
          /\ (pc[p] # "create_get_unauthenticated"
              /\ pc'[p] = "create_get_unauthenticated")
             => req'[p].now = clock
          /\ (Returns(p, "create") /\ req'[p].result = Ok)
             => /\ pc[p] = "create_insert"
                /\ Len(bans') = Len(bans) + 1
                /\ SubSeq(bans', 1, Len(bans)) = bans
                /\ LET new == bans'[Len(bans')] IN
                   /\ new.revoked_at = Scheduled(req[p].req_body)
                   /\ new.revoked_by = {}
                   /\ new.issued_at = req[p].now
                   /\ new.issued_by = req[p].account.id]_vars

\* C8 witness: a create with scheduled end 0 returned Ok and its row is stored.
C8_Witness ==
    \E p \in Handlers :
        /\ Returned(p, "create")
        /\ req[p].result = Ok
        /\ \E i \in 1 .. Len(bans) :
              /\ bans[i].revoked_at = {39600}
              /\ bans[i].revoked_by = {}
              /\ bans[i].issued_by = req[p].account.id

\* C9: an amend returns Ok only from its UPDATE, and the UPDATE overwrites in
\* the row of the given id reason, public_reason and revoked_at (D + 39600 for
\* a scheduled end D, absent for none), sets issued_at to the instant the call
\* read on arrival and issued_by to the amending account, whatever the reason
\* was before, and changes nothing else of the row.
C9_AmendReissues ==
    [][\A p \in Handlers :
          (Returns(p, "update") /\ req'[p].result = Ok)
          => /\ pc[p] = "update_execute"
             /\ req[p].ban_id \in 1 .. Len(bans)
             /\ Len(bans') = Len(bans)
             /\ bans'[req[p].ban_id] =
                   [bans[req[p].ban_id] EXCEPT
                       !.reason = req[p].req_body.reason,
                       !.public_reason = req[p].req_body.public_reason,
                       !.revoked_at = Scheduled(req[p].req_body),
                       !.issued_at = req[p].now,
                       !.issued_by = req[p].account.id]]_vars

\* C9 witness: an amend by account 2 at a later instant than the creation
\* returned Ok, and the row carries its reason, account and instant.
C9_Witness ==
    \E p \in Handlers :
        /\ Returned(p, "update")
        /\ req[p].result = Ok
        /\ req[p].account.id = 2
        /\ LET row == bans[req[p].ban_id] IN
           /\ row.issued_by = 2
           /\ row.issued_at = clock
           /\ row.issued_at > StartTime
           /\ row.reason = "cheating"
           /\ row.revoked_at = {39600}

\* C10: a request of an account without the bans-manage scope, on any of the
\* five routes, has returned Unauthorized and has touched neither the ban
\* store, nor the admin table, nor ESI.
C10_DeniedBeforeAnyAccess ==
    \A p \in Handlers :
        (req[p].op # "none" /\ ~Permitted(req[p].account))
        => /\ pc[p] = "done"
           /\ req[p].result = Unauthorized
           /\ req[p].touched = {}

\* C10 witness: a revoke of a ban that is in the table was denied.
C10_Witness ==
    \E p \in Handlers :
        /\ Returned(p, "revoke")
        /\ ~Permitted(req[p].account)
        /\ req[p].result = Unauthorized
        /\ req[p].ban_id \in 1 .. Len(bans)

\* The step of handler p that leaves the position `at`.
Leaves(p, at) == pc[p] = at /\ pc'[p] # at

\* C11: the list route returns exactly the bans of the table that are active
\* at the instant the call read (revoked_at absent or later than it), each
\* once: every such ban is returned, and none with revoked_at <= now.
C11_ListReturnsExactlyActive ==
    [][\A p \in Handlers :
          Leaves(p, "list_fetch_all")
          => LET rows == req'[p].result.rows IN
             /\ pc'[p] = "done"
             /\ req'[p].result.status = "Ok"
             /\ {unwrap(rows[k].id) : k \in 1 .. Len(rows)}
                  = {bans[i].id : i \in {j \in 1 .. Len(bans) : IsActive(bans[j], req[p].now)}}
             /\ \A k, l \in 1 .. Len(rows) : rows[k].id = rows[l].id => k = l]_vars

\* C11 witness: a list call returned a ban whose scheduled end had not come,
\* and nothing else.
C11_Witness ==
    \E p \in Handlers :
        /\ Returned(p, "list")
        /\ Len(req[p].result.rows) = 1
        /\ req[p].result.rows[1].id = Some(1)
        /\ req[p].result.rows[1].revoked_at = bans[1].revoked_at
        /\ bans[1].revoked_at # {}
        /\ bans[1].revoked_by = {}

\* C12: when the ESI lookup of a create fails the call returns the ESI error,
\* which is neither a BadRequest nor Ok, and the ban table is as it was; the
\* call goes on to the admin lookup only with a name ESI served for the entity.
C12_ResolverFailureAborts ==
    [][\A p \in Handlers :
          Leaves(p, "create_get_unauthenticated")
          => \/ /\ pc'[p] = "done"
                /\ req'[p].result = EsiError
                /\ req'[p].result.status \notin {"Ok", "BadRequest", "Unauthorized"}
                /\ bans' = bans
             \/ /\ pc'[p] = "create_select_admin"
                /\ \E n \in esi_names :
                     /\ n.path = esi_path(unwrap(req[p].req_body.entity))
                     /\ req'[p].esi_res = Some([name |-> n.name])]_vars

\* C12 witness: a create returned the ESI error without reaching the ban store.
C12_Witness ==
    \E p \in Handlers :
        /\ Returned(p, "create")
        /\ req[p].result = EsiError
        /\ req[p].touched = {"esi"}

\* C13: a revoke whose id names no row of the ban table returns the
\* could-not-find error for that id and leaves the table as it was.
C13_RevokeOfMissingBan ==
    [][\A p \in Handlers :
          (Leaves(p, "revoke_select") /\ \A i \in 1 .. Len(bans) : bans[i].id # req[p].ban_id)
          => /\ pc'[p] = "done"
             /\ req'[p].result = CouldNotFind(req[p].ban_id)
             /\ bans' = bans]_vars

\* C13 witness: a revoke of an id the table does not hold was refused, the
\* table holding a ban under another id.
C13_Witness ==
    \E p \in Handlers :
        /\ Returned(p, "revoke")
        /\ req[p].result = CouldNotFind(req[p].ban_id)
        /\ Len(bans) >= 1
        /\ req[p].ban_id \notin 1 .. Len(bans)

\* C14: a history query for a character of which the table holds no ban
\* returns Ok with an empty list, never an error.
C14_EmptyHistoryIsOk ==
    [][\A p \in Handlers :
          (/\ Leaves(p, "character_history_all_bans")
           /\ \A i \in 1 .. Len(bans) :
                 ~(bans[i].entity_id = req[p].character_id /\ bans[i].entity_type = "Character"))
          => /\ pc'[p] = "done"
             /\ req'[p].result = OkRows(<< >>)
             /\ req'[p].result.status = "Ok"]_vars

\* C14 witness: a history query returned the empty list while the table holds
\* a ban of another entity.
C14_Witness ==
    \E p \in Handlers :
        /\ Returned(p, "character_history")
        /\ req[p].result = OkRows(<< >>)
        /\ Len(bans) >= 1

\* The step is one of handler p.
Steps(p) == pc'[p] # pc[p] \/ req'[p] # req[p]

\* The step ends a create, update or revoke call of handler p with Ok.
Succeeds(p, op) ==
    Steps(p) /\ pc'[p] = "done" /\ req'[p].op = op /\ req'[p].result = Ok

\* The rows of the table other than the one with the id are as they were.
OthersKept(ban_id) ==
    /\ Len(bans') = Len(bans)
    /\ \A i \in 1 .. Len(bans) : bans[i].id # ban_id => bans'[i] = bans[i]

\* C15: a step that ends a create with Ok adds one row and leaves the rows
\* there were; a step that ends an update or a revoke with Ok writes the row
\* of the given id and leaves every other row; every other step, and so every
\* call that ends otherwise, leaves the whole table as it was.
C15_OneRecordPerCall ==
    [][/\ \A p \in Handlers :
            /\ Succeeds(p, "create")
                => /\ Len(bans') = Len(bans) + 1
                   /\ SubSeq(bans', 1, Len(bans)) = bans
            /\ (Succeeds(p, "update") \/ Succeeds(p, "revoke"))
                => /\ \E i \in 1 .. Len(bans) : bans[i].id = req'[p].ban_id
                   /\ OthersKept(req'[p].ban_id)
       /\ (\A p \in Handlers :
             ~(Succeeds(p, "create") \/ Succeeds(p, "update") \/ Succeeds(p, "revoke")))
          => bans' = bans]_vars

\* C15 witness: with two bans in the table, a revoke of the first returned Ok
\* and the second is as created.
C15_Witness ==
    \E p \in Handlers :
        /\ Returned(p, "revoke")
        /\ req[p].result = Ok
        /\ req[p].ban_id = 1
        /\ Len(bans) = 2
        /\ bans[1].revoked_by = Some(req[p].account.id)
        /\ bans[2].revoked_by = None

\* C16: no step changes the id, the entity id, the entity name or the entity
\* type of a row; the UPDATE of update leaves revoked_by of every row, and the
\* UPDATE of revoke leaves reason, public_reason, issued_at and issued_by.
C16_IdentityImmutable ==
    [][\A i \in 1 .. Len(bans), k \in 1 .. Len(bans') :
          bans'[k].id = bans[i].id
          => /\ bans'[k].entity_id = bans[i].entity_id
             /\ bans'[k].entity_name = bans[i].entity_name
             /\ bans'[k].entity_type = bans[i].entity_type
             /\ \A p \in Handlers :
                  /\ Leaves(p, "update_execute")
                      => bans'[k].revoked_by = bans[i].revoked_by
                  /\ Leaves(p, "revoke_execute")
                      => /\ bans'[k].reason = bans[i].reason
                         /\ bans'[k].public_reason = bans[i].public_reason
                         /\ bans'[k].issued_at = bans[i].issued_at
                         /\ bans'[k].issued_by = bans[i].issued_by]_vars

\* C16 witness: an update wrote a row that carries a revoker, and the row has
\* its revoker and its entity.
C16_Witness ==
    \E p, q \in Handlers :
        /\ Returned(p, "update") /\ req[p].result = Ok /\ req[p].ban_id = 1
        /\ Returned(q, "revoke") /\ req[q].result = Ok /\ req[q].ban_id = 1
        /\ bans[1].issued_by = req[p].account.id
        /\ bans[1].revoked_by = Some(req[q].account.id)
        /\ bans[1].revoked_at = None
        /\ bans[1].entity_id = 500
        /\ bans[1].entity_name = "Mallcorp"
        /\ bans[1].entity_type = "Corporation"

\* C17: no step removes a row: every id in the table before a step is in the
\* table after it.
C17_NeverDeleted ==
    [][\A i \in 1 .. Len(bans) : \E k \in 1 .. Len(bans') : bans'[k].id = bans[i].id]_vars

\* C17 witness: a revoke returned Ok and the row it names is in the table,
\* with its revoker.
C17_Witness ==
    \E p \in Handlers :
        /\ Returned(p, "revoke")
        /\ req[p].result = Ok
        /\ \E i \in 1 .. Len(bans) :
             /\ bans[i].id = req[p].ban_id
             /\ bans[i].revoked_by = Some(req[p].account.id)

\* C18: every row with a revoker has a revoked_at, and it is not after the
\* clock: no active ban has revoked_by set.
C18_RevokerMeansEnded ==
    \A i \in 1 .. Len(bans) :
        bans[i].revoked_by # None => IsInactive(bans[i], clock)

\* C19: the step that ends a create or an update with Ok leaves the row it
\* wrote active at the instant the call read: its revoked_at is absent or
\* after that instant, whatever scheduled end the body carries.
C19_WrittenBanIsActive ==
    [][\A p \in Handlers :
          /\ Leaves(p, "create_insert") => IsActive(bans'[Len(bans')], req[p].now)
          /\ Leaves(p, "update_execute")
              => \A i \in 1 .. Len(bans') :
                    bans'[i].id = req[p].ban_id => IsActive(bans'[i], req[p].now)]_vars
====
